---- MODULE Spec2Model ----
(***************************************************************************)
(* Model of the kelly_telegram bot: the backend client                     *)
(* (bot/services/api_client.py), the text-message handler                  *)
(* (bot/handlers/messages.py) and the /debug command                       *)
(* (bot/handlers/commands.py).                                             *)
(*                                                                         *)
(* Texts are sequences of tokens.  Every character that Telegram's         *)
(* MarkdownV2 reserves, the backslash and the backtick are tokens of their *)
(* own; runs of other characters are one token.  Diacritics of the         *)
(* Spanish texts are dropped.                                              *)
(***************************************************************************)
EXTENDS Integers, Sequences, FiniteSets, TLC

VARIABLES
    default_error_response,  \* the module global DEFAULT_API_ERROR_RESPONSE as it stands
    settings,       \* bot.core.config.settings, fixed after start-up
    user_data,      \* the debug_mode entry of context.user_data of every user
    pc,             \* where the handling of each user's current update stands
    update,         \* the update being handled for each user
    requests,       \* the POSTs issued to the backend during that handling
    response,       \* how the awaited POST ended: a response, a fault, a cancellation
    api_result,     \* what get_api_chat_response gave the handler: a return or a raise
    debug_flags,    \* is_debug_authorized / is_debug_active as read by the handler
    replies         \* the reply_text calls of that handling, with their outcome

vars ==
    <<default_error_response, settings, user_data, pc, update, requests, response, api_result, debug_flags, replies>>

---------------------------------------------------------------------------
(* Bounds and input sets *)

MaxSources == 2

Users == {1, 2}

---------------------------------------------------------------------------
(* Python values *)

PyNone == [t |-> "none"]
Dict(f) == [t |-> "dict", v |-> f]
List(s) == [t |-> "list", v |-> s]
Str(s) == [t |-> "str", v |-> s]
\* a float, in units of 1/10000
PyFloat(n) == [t |-> "float", v |-> <<n>>]
PyInt(n) == [t |-> "int", v |-> <<n>>]
PyBool(b) == [t |-> "bool", v |-> <<b>>]
\* a dict key that is not there
Absent == [t |-> "absent"]

\* bool(x)
Truthy(x) ==
    CASE x.t = "none" -> FALSE
      [] x.t = "dict" -> DOMAIN x.v # {}
      [] x.t \in {"list", "str"} -> Len(x.v) > 0
      [] x.t = "bool" -> x.v[1]
      [] OTHER -> x.v[1] # 0

\* d.get(k, default)
Get(d, k, default) == IF k \in DOMAIN d.v THEN d.v[k] ELSE default

\* the outcome of a call: a value returned or an exception raised
Return(v) == [k |-> "return", v |-> v]
Raise(e) == [k |-> "raise", e |-> e]

---------------------------------------------------------------------------
(* bot/services/api_client.py *)

HTTPX_AVAILABLE == TRUE
CONFIG_LOADED == TRUE

\* The module imports logging, typing, httpx and settings; it never imports json.
json_imported == FALSE

DefaultAnswer ==
    <<"Lo siento, no pude comunicarme con el sistema principal en este momento", ".",
      " Por favor, intentalo de nuevo", ".">>

DEFAULT_API_ERROR_RESPONSE ==
    [answer |-> Str(DefaultAnswer), sources |-> List(<<>>), session_id |-> PyNone]

TimeoutAnswer == <<"Lo siento, la respuesta esta tardando demasiado", ".">>

ConnectAnswer == <<"Lo siento, no pude conectarme con el sistema principal", ".">>

ServerErrorAnswer == <<"Error inesperado del servidor principal", ".">>

AuthErrorAnswer ==
    <<"Error de autenticacion con la API interna", ".", " Contacta al administrador", ".">>

\* Fallback that leaves the session_id of the default in place
FallbackSessionDropped(answer, session_id) ==
    Dict([default_error_response EXCEPT !.answer = Str(answer)])

\* {**DEFAULT_API_ERROR_RESPONSE, "answer": answer, "session_id": session_id}:
\* a new dict, the global is read and left as it is
Fallback(answer, session_id) ==
    Dict([default_error_response EXCEPT !.answer = Str(answer), !.session_id = session_id])

\* {**DEFAULT_API_ERROR_RESPONSE, "session_id": session_id}
DefaultFallback(session_id) ==
    Dict([default_error_response EXCEPT !.session_id = session_id])

\* lines 89-96: str(getattr(settings, KELLYBOT_API_URL, None)) is the text "None"
\* when the URL is missing, which is a non-empty string.
ConfigFault(cfg) ==
    LET base_api_url == IF cfg.KELLYBOT_API_URL.t = "none"
                        THEN Str(<<"None">>) ELSE cfg.KELLYBOT_API_URL
        api_key == IF Truthy(cfg.API_ACCESS_KEY) THEN cfg.API_ACCESS_KEY ELSE PyNone
    IN ~Truthy(base_api_url) \/ ~Truthy(api_key)

\* response.raise_for_status() raises on 4xx and 5xx
IsHttpError(status) == status >= 400

\* "session_id" in response_json, for the types where the test is defined
Contains(x) ==
    CASE x.t = "dict" -> "session_id" \in DOMAIN x.v
      [] x.t = "list" -> \E i \in 1..Len(x.v) : x.v[i] = Str(<<"session_id">>)
      [] x.t = "str" -> \E i \in 1..Len(x.v) : x.v[i] = "session_id"
      [] OTHER -> FALSE

\* lines 117-134: the body of the try block, given what the network did
TryBlock(net, session_id) ==
    CASE net.kind = "timeout" -> Raise("TimeoutException")
      [] net.kind = "request_error" -> Raise("RequestError")
      [] net.kind = "other_error" -> Raise("Exception")
      [] net.kind = "cancelled" -> Raise("CancelledError")
      [] OTHER ->
           IF IsHttpError(net.status) THEN Raise("HTTPStatusError")
           ELSE IF net.body.t = "invalid" THEN Raise("JSONDecodeError")
           ELSE LET response_json == net.body IN
                CASE response_json.t = "dict" ->
                       IF Contains(response_json) THEN Return(response_json)
                       ELSE Return(Dict(("session_id" :> session_id) @@ response_json.v))
                  [] response_json.t \in {"list", "str"} ->
                       \* item assignment on a list with a str index, or on a str
                       IF Contains(response_json) THEN Return(response_json)
                       ELSE Raise("TypeError")
                  [] OTHER -> Raise("TypeError")

\* ErrorDetail with the detail shown for every status, the 5xx too
ErrorDetailAnyStatus(status, body) ==
    IF body.t # "dict"
    THEN ServerErrorAnswer
    ELSE LET detail == Get(body, "detail", PyNone) IN
         IF Truthy(detail)
         THEN <<"Error ", ToString(status), ": ">> \o detail.v
         ELSE IF status = 401 THEN AuthErrorAnswer
         ELSE ServerErrorAnswer

\* ErrorDetail that never shows the detail of the body
ErrorDetailHidden(status, body) ==
    IF body.t = "dict" /\ status = 401 THEN AuthErrorAnswer ELSE ServerErrorAnswer

\* lines 147-155
ErrorDetail(status, body) ==
    IF body.t # "dict"
    THEN ServerErrorAnswer      \* .json() or .get raised: except Exception: pass
    ELSE LET detail == Get(body, "detail", PyNone) IN
         IF Truthy(detail) /\ status < 500
         THEN <<"Error ", ToString(status), ": ">> \o detail.v
         ELSE IF status = 401 THEN AuthErrorAnswer
         ELSE ServerErrorAnswer

\* ExceptClauses with the RequestError clause tried first: a TimeoutException
\* is a RequestError and is caught by it
ExceptClausesConnectFirst(exc, net, session_id) ==
    IF exc \in {"TimeoutException", "RequestError"}
    THEN Return(Fallback(ConnectAnswer, session_id))
    ELSE IF exc = "HTTPStatusError"
         THEN Return(Fallback(ErrorDetail(net.status, net.body), session_id))
    ELSE IF ~json_imported THEN Raise("NameError")
    ELSE IF exc = "CancelledError" THEN Raise(exc)
    ELSE Return(DefaultFallback(session_id))

\* lines 136-163: the except clauses, tried in order
ExceptClauses(exc, net, session_id) ==
    IF exc = "TimeoutException" THEN Return(Fallback(TimeoutAnswer, session_id))
    ELSE IF exc = "RequestError" THEN Return(Fallback(ConnectAnswer, session_id))
    ELSE IF exc = "HTTPStatusError"
         THEN Return(Fallback(ErrorDetail(net.status, net.body), session_id))
    ELSE IF ~json_imported THEN Raise("NameError")  \* evaluating json.JSONDecodeError
    ELSE IF exc = "CancelledError" THEN Raise(exc)  \* not an Exception
    ELSE Return(DefaultFallback(session_id))

\* lines 116-163: the request has been awaited and the network did `net`
AfterRequest(net, session_id) ==
    LET r == TryBlock(net, session_id) IN
    IF r.k = "return" THEN r ELSE ExceptClauses(r.e, net, session_id)

---------------------------------------------------------------------------
(* bot/handlers/messages.py *)

SERVICES_AVAILABLE == TRUE

API_ERROR_MESSAGE ==
    <<"Lo siento, estoy teniendo problemas para conectar con mi cerebro principal en este momento",
      ".", " Por favor, intenta de nuevo en unos instantes", ".">>

ServiceMessage ==
    <<"Lo siento, estoy experimentando problemas tecnicos ", "[", "SVC", "]", ".">>

NoUserMessage == <<"No pude identificarte, lo siento", ".">>

\* SessionId that leaves the user id out of the key
SessionIdShared(user_id) == Str(<<"tg_user_">>)

\* line 66: f"tg_user_{user_id}"
SessionId(user_id) == Str(<<"tg_user_", ToString(user_id)>>)

NL == "<newline>"
Backtick == "<backtick>"
\* " • " after a newline
Bullet == " <bullet> "

\* "\n\n---\n*Fuentes \\(Debug\\):*"
SourcesHeader ==
    <<NL, NL, "-", "-", "-", NL, "*", "Fuentes ", "\\", "(", "Debug", "\\", ")", ":", "*">>

\* f"{score:.3f}" of a float given in units of 1/10000
Format3f(n) ==
    LET r == (n + 5) \div 10 IN
    <<ToString(r \div 1000), ".",
      ToString((r \div 100) % 10), ToString((r \div 10) % 10), ToString(r % 10)>>

\* line 113
ScoreStr(score) ==
    IF score.t = "float" THEN <<" ", "(">> \o Format3f(score.v[1]) \o <<")">> ELSE <<>>

\* lines 109-118; i counts from 1, as the text of line 118 does
SourceLine(i, src) ==
    IF src.t = "dict"
    THEN LET src_id == Get(src, "source_id", Str(<<"N/A">>))
             score == Get(src, "score", PyNone)
         IN <<Backtick>> \o src_id.v \o <<Backtick>> \o ScoreStr(score)
    ELSE <<"Fuente ", ToString(i), " invalida">>

\* sep.join(lines)
RECURSIVE Join(_, _)
Join(lines, sep) ==
    IF lines = <<>> THEN <<>>
    ELSE IF Len(lines) = 1 THEN lines[1]
    ELSE lines[1] \o sep \o Join(Tail(lines), sep)

\* SourceLines with the entries taken last to first
SourceLinesReversed(sources) ==
    [i \in 1..Len(sources.v) |->
        SourceLine(Len(sources.v) + 1 - i, sources.v[Len(sources.v) + 1 - i])]

\* lines 107-118
SourceLines(sources) == [i \in 1..Len(sources.v) |-> SourceLine(i, sources.v[i])]

\* lines 106-128: what is appended to the answer when debug is shown
DebugBlock(sources) ==
    IF Truthy(sources) /\ sources.t = "list"
    THEN LET source_lines == SourceLines(sources) IN
         IF source_lines # <<>>
         THEN SourcesHeader \o <<NL, Bullet>> \o Join(source_lines, <<NL, Bullet>>)
         ELSE SourcesHeader \o <<" Ninguna">>
    ELSE SourcesHeader \o <<" Ninguna encontrada o formato invalido">>

\* BaseAnswer without the substitution of lines 89-92
BaseAnswerUnchecked(response_data) == Get(response_data, "answer", Str(<<>>)).v

\* lines 86-93
BaseAnswer(response_data) ==
    LET base_answer == Get(response_data, "answer", PyNone) IN
    IF Truthy(base_answer) THEN base_answer.v ELSE API_ERROR_MESSAGE

\* Sources without the reset of line 93
SourcesKept(response_data) == Get(response_data, "sources", List(<<>>))

\* lines 87-93
Sources(response_data) ==
    IF Truthy(Get(response_data, "answer", PyNone))
    THEN Get(response_data, "sources", List(<<>>))
    ELSE List(<<>>)

\* ShowDebug that looks at the toggle alone
ShowDebugToggleOnly(is_debug_authorized, is_debug_active) == is_debug_active

\* ShowDebug that looks at the authorization alone
ShowDebugAuthorizedOnly(is_debug_authorized, is_debug_active) == is_debug_authorized

\* line 104
ShowDebug(is_debug_authorized, is_debug_active) == is_debug_authorized /\ is_debug_active

\* lines 86-129
ReplyMessage(response_data, is_debug_authorized, is_debug_active) ==
    IF ShowDebug(is_debug_authorized, is_debug_active)
    THEN BaseAnswer(response_data) \o DebugBlock(Sources(response_data))
    ELSE BaseAnswer(response_data)

\* line 135: the parse_mode of the reply that carries the answer
AnswerParseMode == "MARKDOWN_V2"

\* line 100
IsDebugAuthorized(user_id, cfg) == user_id \in cfg.authorized_debug_user_ids

\* line 102: context.user_data.get(debug_mode, False) if context.user_data else False
IsDebugActive(data) ==
    IF Truthy(data) THEN Truthy(Get(data, "debug_mode", PyBool(FALSE))) ELSE FALSE

---------------------------------------------------------------------------
(* bot/handlers/commands.py *)

COMMANDS_CONFIG_LOADED == TRUE

\* str.lower() on the command arguments used here
Lower(tok) ==
    CASE tok \in {"on", "ON", "On"} -> "on"
      [] tok \in {"off", "OFF"} -> "off"
      [] OTHER -> tok

\* lines 93-94: command_parts is the text split on whitespace
ValidArgument(command_parts) ==
    Len(command_parts) = 2 /\ Lower(command_parts[2]) \in {"on", "off"}

\* lines 104-112: user_data after the command
SetDebugMode(data, command_parts) ==
    Dict(("debug_mode" :> PyBool(Lower(command_parts[2]) = "on")) @@ data.v)

\* DebugModeAfter without the authorization check of lines 87-90
DebugModeAfterUnchecked(user_id, command_parts, cfg, data) ==
    IF ~ValidArgument(command_parts) THEN data ELSE SetDebugMode(data, command_parts)

\* lines 79-112: the user_data of the sender after debug_command
DebugModeAfter(user_id, command_parts, cfg, data) ==
    IF ~COMMANDS_CONFIG_LOADED \/ user_id \notin cfg.authorized_debug_user_ids
    THEN data
    ELSE IF ~ValidArgument(command_parts)
    THEN data
    ELSE SetDebugMode(data, command_parts)

---------------------------------------------------------------------------
(* Inputs *)

Invalid == [t |-> "invalid"]    \* a body that is not JSON

\* the two entries of test_handle_message_debug_user_debug_on
Entry1 == Dict([source_id |-> Str(<<"FILE1", "_", "q0">>), score |-> PyFloat(9500)])
Entry2 == Dict([source_id |-> Str(<<"priority", "_", "context">>), score |-> PyFloat(10000)])

\* a float score, a whole-number score, no score, no source_id, not a dict
SourceEntries ==
    { Entry1, Entry2,
      Dict([source_id |-> Str(<<"DOC", "_", "q1">>), score |-> PyInt(1)]),
      Dict([source_id |-> Str(<<"DOC", "_", "q2">>)]),
      Str(<<"DOC", "_", "q3">>) }

SourceLists == UNION { [1..n -> SourceEntries] : n \in 0..MaxSources }

SmallSourceLists == UNION { [1..n -> {Entry1, Entry2}] : n \in 0..MaxSources }

AnswerText == <<"Respuesta detallada", ".">>

AnswerOpts == {Absent, Str(<<>>), Str(AnswerText)}

SourcesOpts == {Absent, Str(<<"FILE1", "_", "q0">>)} \cup { List(l) : l \in SourceLists }

Field(k, v) == IF v = Absent THEN <<>> ELSE (k :> v)

Object(answer, srcs, sid) ==
    Dict(Field("answer", answer) @@ Field("sources", srcs) @@ Field("session_id", sid))

SessionOpts == {Absent, Str(<<"srv-session">>)}

SuccessBodies ==
    { Object(a, s, sid) : a \in AnswerOpts, s \in SourcesOpts, sid \in SessionOpts }

NonObjectBodies ==
    {Invalid, PyInt(3), List(<<>>), List(<<Str(<<"session_id">>)>>)}

DetailText == <<"quota exceeded">>

ErrorBodies ==
    {Invalid, List(<<>>), Dict(<<>>), Dict([detail |-> Str(<<>>)]),
     Dict([detail |-> Str(DetailText)])}

Statuses == {200, 401, 403, 404, 500, 503}

Bodies(status) ==
    IF IsHttpError(status) THEN ErrorBodies ELSE SuccessBodies \cup NonObjectBodies

NetOutcomes ==
    {[kind |-> "timeout"], [kind |-> "request_error"], [kind |-> "other_error"]}
    \cup { [kind |-> "response", status |-> st, body |-> b] :
             st \in Statuses, b \in UNION { Bodies(x) : x \in Statuses } }

\* the outcomes drawn where two handlings run side by side
SmallNetOutcomes ==
    {[kind |-> "timeout"], [kind |-> "response", status |-> 200, body |-> Invalid],
     [kind |-> "response", status |-> 200,
      body |-> Object(Str(<<>>), List(<<Entry1>>), Absent)]}
    \cup { [kind |-> "response", status |-> 200, body |-> Object(Str(AnswerText), List(l), Absent)] :
             l \in SmallSourceLists }

\* settings as get_api_chat_response may find them: the URL and the credential
\* there or not (getattr(settings, ..., None)), the credential possibly empty
Configs ==
    { [KELLYBOT_API_URL |-> url, API_ACCESS_KEY |-> key, authorized_debug_user_ids |-> {1}] :
        url \in {PyNone, Str(<<"http://localhost:8000">>)},
        key \in {PyNone, Str(<<>>), Str(<<"secret">>)} }

\* the outcomes drawn where the configuration varies
ConfigNetOutcomes ==
    SmallNetOutcomes
    \cup {[kind |-> "request_error"], [kind |-> "other_error"],
          [kind |-> "response", status |-> 403, body |-> Dict([detail |-> Str(DetailText)])],
          [kind |-> "response", status |-> 500, body |-> Invalid]}

MessageText == Str(<<"Hola bot">>)

\* user 0 stands for update.effective_user being None
Updates(u) ==
    { [message |-> FALSE, text |-> PyNone, user |-> u, chat |-> TRUE],
      [message |-> TRUE, text |-> PyNone, user |-> u, chat |-> TRUE],
      [message |-> TRUE, text |-> Str(<<>>), user |-> u, chat |-> TRUE],
      [message |-> TRUE, text |-> MessageText, user |-> u, chat |-> TRUE],
      [message |-> TRUE, text |-> MessageText, user |-> 0, chat |-> TRUE],
      [message |-> TRUE, text |-> MessageText, user |-> 0, chat |-> FALSE] }

Commands ==
    { <<"/debug">>, <<"/debug", "on">>, <<"/debug", "ON">>, <<"/debug", "off">>,
      <<"/debug", "OFF">>,
      <<"/debug", "on", "now">>, <<"/debug", "maybe">> }

UserDataValues ==
    { Dict(<<>>), Dict([debug_mode |-> PyBool(TRUE)]), Dict([debug_mode |-> PyBool(FALSE)]) }

---------------------------------------------------------------------------
(* State machine *)

NoUpdate == [message |-> FALSE, text |-> PyNone, user |-> 0, chat |-> FALSE]
NoResponse == [kind |-> "none"]
NoResult == [k |-> "none"]
NoFlags == [read |-> FALSE, authorized |-> FALSE, active |-> FALSE]

\* a call of update.message.reply_text, awaited
Reply(text, parse_mode, line) ==
    [text |-> text, parse_mode |-> parse_mode, line |-> line, outcome |-> "pending"]

Settle(rs, outcome) == [rs EXCEPT ![Len(rs)].outcome = outcome]

\* messages.py lines 73-142, from the return of get_api_chat_response to the
\* next await: no other coroutine runs in between
AfterApi(user_id, result, cfg, data) ==
    IF result.k = "raise"
    THEN IF result.e = "CancelledError"
         THEN [pc |-> "cancelled", flags |-> NoFlags, replies |-> <<>>]
         ELSE [pc |-> "reply_except", flags |-> NoFlags,
               replies |-> <<Reply(API_ERROR_MESSAGE, "None", 142)>>]
    ELSE LET response_data == result.v IN
         IF ~Truthy(response_data) \/ response_data.t # "dict"
         THEN [pc |-> "reply_try", flags |-> NoFlags,
               replies |-> <<Reply(API_ERROR_MESSAGE, "None", 83)>>]
         ELSE LET is_debug_authorized == IsDebugAuthorized(user_id, cfg)
                  is_debug_active == IsDebugActive(data)
              IN [pc |-> "reply_try",
                  flags |-> [read |-> TRUE, authorized |-> is_debug_authorized,
                             active |-> is_debug_active],
                  replies |-> <<Reply(ReplyMessage(response_data, is_debug_authorized,
                                                   is_debug_active),
                                      AnswerParseMode, 135)>>]

Init ==
    /\ default_error_response = DEFAULT_API_ERROR_RESPONSE
    /\ settings = [KELLYBOT_API_URL |-> Str(<<"http://localhost:8000">>),
                   API_ACCESS_KEY |-> Str(<<"secret">>),
                   authorized_debug_user_ids |-> {1}]
    /\ user_data \in [Users -> UserDataValues]
    /\ pc = [u \in Users |-> "idle"]
    /\ update = [u \in Users |-> NoUpdate]
    /\ requests = [u \in Users |-> <<>>]
    /\ response = [u \in Users |-> NoResponse]
    /\ api_result = [u \in Users |-> NoResult]
    /\ debug_flags = [u \in Users |-> NoFlags]
    /\ replies = [u \in Users |-> <<>>]

\* NoText that looks at the message alone, not at its text
NoTextMessageOnly(upd) == ~upd.message

\* line 45: not update.message or not update.message.text
NoText(upd) == ~upd.message \/ ~Truthy(upd.text)

\* messages.py lines 40-78 and api_client.py lines 84-118: an update of user u
\* is dispatched and handled up to its first await
HandleTextMessage(u) ==
    /\ pc[u] = "idle"
    /\ \E upd \in Updates(u) :
         /\ update' = [update EXCEPT ![u] = upd]
         /\ IF NoText(upd)
            THEN /\ pc' = [pc EXCEPT ![u] = "done"]
                 /\ replies' = [replies EXCEPT ![u] = <<>>]
                 /\ requests' = [requests EXCEPT ![u] = <<>>]
                 /\ api_result' = [api_result EXCEPT ![u] = NoResult]
                 /\ debug_flags' = [debug_flags EXCEPT ![u] = NoFlags]
            ELSE IF ~SERVICES_AVAILABLE
            THEN /\ pc' = [pc EXCEPT ![u] = "reply_plain"]
                 /\ replies' = [replies EXCEPT ![u] = <<Reply(ServiceMessage, "None", 51)>>]
                 /\ requests' = [requests EXCEPT ![u] = <<>>]
                 /\ api_result' = [api_result EXCEPT ![u] = NoResult]
                 /\ debug_flags' = [debug_flags EXCEPT ![u] = NoFlags]
            ELSE IF upd.user = 0
            THEN /\ pc' = [pc EXCEPT ![u] = IF upd.chat THEN "reply_plain" ELSE "done"]
                 /\ replies' = [replies EXCEPT ![u] =
                        IF upd.chat THEN <<Reply(NoUserMessage, "None", 61)>> ELSE <<>>]
                 /\ requests' = [requests EXCEPT ![u] = <<>>]
                 /\ api_result' = [api_result EXCEPT ![u] = NoResult]
                 /\ debug_flags' = [debug_flags EXCEPT ![u] = NoFlags]
            ELSE LET session_id == SessionId(upd.user) IN
                 IF ~HTTPX_AVAILABLE \/ ~CONFIG_LOADED \/ ConfigFault(settings)
                 THEN LET result == Return(DefaultFallback(session_id))
                          next == AfterApi(upd.user, result, settings, user_data[u])
                      IN /\ pc' = [pc EXCEPT ![u] = next.pc]
                         /\ replies' = [replies EXCEPT ![u] = next.replies]
                         /\ requests' = [requests EXCEPT ![u] = <<>>]
                         /\ api_result' = [api_result EXCEPT ![u] = result]
                         /\ debug_flags' = [debug_flags EXCEPT ![u] = next.flags]
                 ELSE /\ pc' = [pc EXCEPT ![u] = "await_api"]
                      /\ replies' = [replies EXCEPT ![u] = <<>>]
                      /\ requests' = [requests EXCEPT ![u] =
                             <<[message |-> upd.text, session_id |-> session_id]>>]
                      /\ api_result' = [api_result EXCEPT ![u] = NoResult]
                      /\ debug_flags' = [debug_flags EXCEPT ![u] = NoFlags]
    /\ response' = [response EXCEPT ![u] = NoResponse]
    /\ UNCHANGED <<default_error_response, settings, user_data>>

\* ApiReturns with one retry: after a timeout the POST is issued again and the
\* call answers as it does for a timeout all the same
ApiReturnsWithRetry(u, outcomes) ==
    /\ pc[u] = "await_api"
    /\ \E net \in outcomes :
         /\ net.kind = "response" => net.body \in Bodies(net.status)
         /\ settings.KELLYBOT_API_URL.t = "none" => net.kind \in {"request_error", "other_error"}
         /\ LET result == AfterRequest(net, requests[u][1].session_id)
                next == AfterApi(update[u].user, result, settings, user_data[u])
            IN /\ response' = [response EXCEPT ![u] = net]
               /\ api_result' = [api_result EXCEPT ![u] = result]
               /\ pc' = [pc EXCEPT ![u] = next.pc]
               /\ debug_flags' = [debug_flags EXCEPT ![u] = next.flags]
               /\ replies' = [replies EXCEPT ![u] = next.replies]
               /\ requests' = [requests EXCEPT ![u] =
                      IF net.kind = "timeout" THEN Append(@, @[1]) ELSE @]
    /\ UNCHANGED <<default_error_response, settings, user_data, update>>

\* api_client.py lines 118-163 and messages.py lines 80-142: the backend call of
\* user u ends and the handler runs on to its reply
ApiReturns(u, outcomes) ==
    /\ pc[u] = "await_api"
    /\ \E net \in outcomes :
         /\ net.kind = "response" => net.body \in Bodies(net.status)
         \* a target URL without a scheme ("None/api/v1/chat") is refused by httpx
         \* before anything is sent
         /\ settings.KELLYBOT_API_URL.t = "none" => net.kind \in {"request_error", "other_error"}
         /\ LET result == AfterRequest(net, requests[u][1].session_id)
                next == AfterApi(update[u].user, result, settings, user_data[u])
            IN /\ response' = [response EXCEPT ![u] = net]
               /\ api_result' = [api_result EXCEPT ![u] = result]
               /\ pc' = [pc EXCEPT ![u] = next.pc]
               /\ debug_flags' = [debug_flags EXCEPT ![u] = next.flags]
               /\ replies' = [replies EXCEPT ![u] = next.replies]
    /\ UNCHANGED <<default_error_response, settings, user_data, update, requests>>

\* messages.py lines 51, 61, 83, 135, 137-142: an awaited reply_text ends, sent
\* or refused by Telegram
ReplyReturns(u) ==
    /\ pc[u] \in {"reply_try", "reply_except", "reply_plain"}
    /\ \E ok \in BOOLEAN :
         IF ok
         THEN /\ replies' = [replies EXCEPT ![u] = Settle(@, "sent")]
              /\ pc' = [pc EXCEPT ![u] = "done"]
         ELSE IF pc[u] = "reply_try"
         THEN /\ replies' = [replies EXCEPT ![u] =
                     Append(Settle(@, "failed"), Reply(API_ERROR_MESSAGE, "None", 142))]
              /\ pc' = [pc EXCEPT ![u] = "reply_except"]
         ELSE /\ replies' = [replies EXCEPT ![u] = Settle(@, "failed")]
              /\ pc' = [pc EXCEPT ![u] = "raised"]
    /\ UNCHANGED <<default_error_response, settings, user_data, update, requests, response, api_result, debug_flags>>

\* the task handling user u's update is cancelled at the await where it stands
Cancel(u) ==
    /\ pc[u] \in {"await_api", "reply_try", "reply_except", "reply_plain"}
    /\ IF pc[u] = "await_api"
       THEN LET result == AfterRequest([kind |-> "cancelled"], requests[u][1].session_id)
                next == AfterApi(update[u].user, result, settings, user_data[u])
            IN /\ response' = [response EXCEPT ![u] = [kind |-> "cancelled"]]
               /\ api_result' = [api_result EXCEPT ![u] = result]
               /\ pc' = [pc EXCEPT ![u] = next.pc]
               /\ debug_flags' = [debug_flags EXCEPT ![u] = next.flags]
               /\ replies' = [replies EXCEPT ![u] = next.replies]
       ELSE /\ replies' = [replies EXCEPT ![u] = Settle(@, "cancelled")]
            /\ pc' = [pc EXCEPT ![u] = "cancelled"]
            /\ UNCHANGED <<response, api_result, debug_flags>>
    /\ UNCHANGED <<default_error_response, settings, user_data, update, requests>>

\* commands.py lines 79-112: /debug sent by user u
DebugCommand(u) ==
    /\ \E command_parts \in Commands :
         user_data' = [user_data EXCEPT ![u] = DebugModeAfter(u, command_parts, settings, @)]
    /\ UNCHANGED <<default_error_response, settings, pc, update, requests, response, api_result, debug_flags, replies>>

\* the coroutine handling user u's update has ended: its locals are gone
Finish(u) ==
    /\ pc[u] \in {"done", "raised", "cancelled"}
    /\ pc' = [pc EXCEPT ![u] = "idle"]
    /\ update' = [update EXCEPT ![u] = NoUpdate]
    /\ requests' = [requests EXCEPT ![u] = <<>>]
    /\ response' = [response EXCEPT ![u] = NoResponse]
    /\ api_result' = [api_result EXCEPT ![u] = NoResult]
    /\ debug_flags' = [debug_flags EXCEPT ![u] = NoFlags]
    /\ replies' = [replies EXCEPT ![u] = <<>>]
    /\ UNCHANGED <<default_error_response, settings, user_data>>

\* no update of another user is being handled
Alone(u) == \A v \in Users \ {u} : pc[v] = "idle"

\* Updates are handled one at a time, over every input; /debug commands of any
\* user and cancellation come at any moment.
Next ==
    \E u \in Users :
        \/ Alone(u) /\ HandleTextMessage(u)
        \/ ApiReturns(u, NetOutcomes)
        \/ ReplyReturns(u)
        \/ Cancel(u)
        \/ DebugCommand(u)
        \/ Finish(u)

Spec == Init /\ [][Next]_vars

\* main.py lines 124-128, concurrent_updates(True): the updates of different
\* users are handled side by side.
NextConcurrent ==
    \E u \in Users :
        \/ HandleTextMessage(u)
        \/ ApiReturns(u, SmallNetOutcomes)
        \/ ReplyReturns(u)
        \/ Cancel(u)
        \/ DebugCommand(u)
        \/ Finish(u)

SpecConcurrent == Init /\ [][NextConcurrent]_vars

\* api_client.py lines 89-98: the same handlers over every configuration the
\* client may find, one update at a time
InitAnyConfig ==
    /\ default_error_response = DEFAULT_API_ERROR_RESPONSE
    /\ settings \in Configs
    /\ user_data \in [Users -> UserDataValues]
    /\ pc = [u \in Users |-> "idle"]
    /\ update = [u \in Users |-> NoUpdate]
    /\ requests = [u \in Users |-> <<>>]
    /\ response = [u \in Users |-> NoResponse]
    /\ api_result = [u \in Users |-> NoResult]
    /\ debug_flags = [u \in Users |-> NoFlags]
    /\ replies = [u \in Users |-> <<>>]

NextAnyConfig ==
    \E u \in Users :
        \/ Alone(u) /\ HandleTextMessage(u)
        \/ ApiReturns(u, ConfigNetOutcomes)
        \/ ReplyReturns(u)
        \/ Cancel(u)
        \/ DebugCommand(u)
        \/ Finish(u)

SpecAnyConfig == InitAnyConfig /\ [][NextAnyConfig]_vars

---------------------------------------------------------------------------
(* Vocabulary of the properties *)

\* the update handled for u is a message with text from an identifiable user
HasTextAndUser(u) == update[u].message /\ Truthy(update[u].text) /\ update[u].user # 0

\* get_api_chat_response has ended for u, and not because the task was cancelled
CallEnded(u) == api_result[u].k # "none" /\ response[u].kind # "cancelled"

\* the backend answered the call of u with an HTTP response
GotResponse(u) == api_result[u].k # "none" /\ response[u].kind = "response"

\* the handler of u got a dict from the client and went on to render it (lines 86-135)
Rendered(u) == debug_flags[u].read

\* the answer and the sources of the dict the handler of u rendered
ResultAnswer(u) == Get(api_result[u].v, "answer", PyNone)
ResultSources(u) == Get(api_result[u].v, "sources", List(<<>>))

StartsWith(text, prefix) ==
    Len(text) >= Len(prefix) /\ SubSeq(text, 1, Len(prefix)) = prefix

Drop(text, n) == SubSeq(text, n + 1, Len(text))

HasToken(text, toks) == \E i \in 1..Len(text) : text[i] \in toks

\* the tokens of the header the debug block starts with
HeaderTokens == {"Fuentes ", "Debug"}

\* the tokens of the source ids the inputs carry
SourceIdTokens == {"FILE1", "q0", "priority", "context", "DOC", "q1", "q2", "q3", "N/A"}

\* the lines of a bulleted list: line k runs from the k-th bullet to the next one
BulletPositions(text) == { i \in 1..Len(text) : text[i] = Bullet }

KthBullet(text, k) ==
    CHOOSE p \in BulletPositions(text) :
        Cardinality({ q \in BulletPositions(text) : q < p }) = k - 1

ListLine(text, k) ==
    LET n == Cardinality(BulletPositions(text)) IN
    SubSeq(text, KthBullet(text, k) + 1,
           IF k < n THEN KthBullet(text, k + 1) - 2 ELSE Len(text))

---------------------------------------------------------------------------
(* C1 *)

\* C1: get_api_chat_response never raises to its caller: whatever the backend
\* did (a 2xx with or without a JSON object, a timeout, a connection failure, a
\* 4xx or 5xx, any other fault), the call ends with a return.
C1_NeverRaises ==
    \A u \in Users : CallEnded(u) => api_result[u].k = "return"

---------------------------------------------------------------------------
(* C2 *)

\* C2: on HTTP 401 the answer returned is the fixed authentication-error text,
\* whatever the error body is, so nothing of the body is in it.
C2_AuthAnswerOn401 ==
    \A u \in Users :
        (GotResponse(u) /\ response[u].status = 401)
            => /\ api_result[u].k = "return"
               /\ Get(api_result[u].v, "answer", PyNone) = Str(AuthErrorAnswer)

---------------------------------------------------------------------------
(* C3 *)

\* a text the user may be sent: one that begins with the generic error message
\* or with the non-empty answer the client returned (the debug block may follow)
UserSafeText(u, text) ==
    /\ Len(text) > 0
    /\ \/ StartsWith(text, API_ERROR_MESSAGE)
       \/ /\ api_result[u].k = "return"
          /\ api_result[u].v.t = "dict"
          /\ ResultAnswer(u).t = "str"
          /\ Len(ResultAnswer(u).v) > 0
          /\ StartsWith(text, ResultAnswer(u).v)

\* C3: for a message with text and a user, whatever the client did (a result, a
\* fallback, a value that is no dict, an empty answer, an exception) every reply
\* handed to Telegram is non-empty natural-language text (the answer, a fallback
\* or the generic error message); a reply is attempted as soon as the call has
\* ended, the handling ends normally only with a reply delivered, a refused
\* first reply is followed by the generic error message, and the handling ends
\* with an exception only when Telegram refused that last-resort reply too.
C3_AlwaysTextReply ==
    \A u \in Users :
        HasTextAndUser(u) =>
            /\ \A i \in 1..Len(replies[u]) : UserSafeText(u, replies[u][i].text)
            /\ (CallEnded(u) /\ pc[u] # "cancelled") => Len(replies[u]) >= 1
            /\ pc[u] = "done" =>
                   /\ Len(replies[u]) >= 1
                   /\ replies[u][Len(replies[u])].outcome = "sent"
            /\ pc[u] = "raised" =>
                   /\ Len(replies[u]) >= 1
                   /\ replies[u][Len(replies[u])].line = 142
                   /\ replies[u][Len(replies[u])].outcome = "failed"
            /\ \A i \in 1..(Len(replies[u]) - 1) :
                   replies[u][i].outcome = "failed"
                       => replies[u][i + 1].text = API_ERROR_MESSAGE

\* the client raised, the handler answered with the generic message; and, for
\* another user or update, a refused first reply was followed by a delivered one
C3_Witness ==
    \E u \in Users :
        /\ HasTextAndUser(u)
        /\ pc[u] = "done"
        /\ \/ /\ api_result[u].k = "raise"
              /\ replies[u][1].outcome = "sent"
           \/ /\ Len(replies[u]) = 2
              /\ replies[u][1].outcome = "failed"
              /\ replies[u][2].outcome = "sent"
        /\ api_result[u].k = "raise" \/ ~Truthy(ResultAnswer(u))

---------------------------------------------------------------------------
(* C4 *)

\* C4: when the caller is not authorized for debug or the toggle is off, the
\* reply text is exactly the base answer and it is sent in plain mode
\* (parse_mode is not MARKDOWN_V2).
C4_PlainWhenNoDebug ==
    \A u \in Users :
        (Rendered(u) /\ ~(debug_flags[u].authorized /\ debug_flags[u].active))
            => /\ replies[u][1].text =
                      (IF Truthy(ResultAnswer(u)) THEN ResultAnswer(u).v
                       ELSE API_ERROR_MESSAGE)
               /\ replies[u][1].parse_mode # "MARKDOWN_V2"

---------------------------------------------------------------------------
(* C5 *)

\* C5: no reply to a user outside the authorized debug set carries the Sources
\* (Debug) header or a source id, whatever the toggle and the sources are.
C5_NoSourcesForUnauthorized ==
    \A u \in Users :
        u \notin settings.authorized_debug_user_ids
            => \A i \in 1..Len(replies[u]) :
                   ~HasToken(replies[u][i].text, HeaderTokens \cup SourceIdTokens)

\* an unauthorized user whose stored toggle is on got the answer of a result
\* that had sources
C5_Witness ==
    \E u \in Users :
        /\ u \notin settings.authorized_debug_user_ids
        /\ Rendered(u)
        /\ debug_flags[u].active
        /\ Truthy(ResultAnswer(u))
        /\ ResultSources(u).t = "list"
        /\ Len(ResultSources(u).v) = 2
        /\ replies[u][1].outcome = "sent"

---------------------------------------------------------------------------
(* C6 *)

\* the handler of u rendered a result without the debug block being due
RenderedWithoutDebug(u) ==
    Rendered(u) /\ ~(debug_flags[u].authorized /\ debug_flags[u].active)

\* C6: two handlings that do not show debug (an authorized user with the toggle
\* off, an unauthorized user) and whose backend results carry the same answer
\* hand Telegram the same text in the same mode, whatever the sources of the
\* two results are.
C6_SameReplyWithoutDebug ==
    \A u, v \in Users :
        (/\ RenderedWithoutDebug(u)
         /\ RenderedWithoutDebug(v)
         /\ ResultAnswer(u) = ResultAnswer(v))
            => /\ replies[u][1].text = replies[v][1].text
               /\ replies[u][1].parse_mode = replies[v][1].parse_mode

\* the authorized user with the toggle off and the unauthorized user both got
\* the same answer, with different sources
C6_Witness ==
    \E u, v \in Users :
        /\ u \in settings.authorized_debug_user_ids
        /\ v \notin settings.authorized_debug_user_ids
        /\ Rendered(u) /\ ~debug_flags[u].active
        /\ Rendered(v)
        /\ Truthy(ResultAnswer(u))
        /\ ResultAnswer(u) = ResultAnswer(v)
        /\ Len(ResultSources(u).v) = 2
        /\ Len(ResultSources(v).v) = 1
        /\ replies[u][1].outcome = "sent"
        /\ replies[v][1].outcome = "sent"

---------------------------------------------------------------------------
(* C7 *)

\* the line of the debug block that belongs to the k-th source entry
LineOfEntry(line, entry, k) ==
    IF entry.t = "dict"
    THEN StartsWith(line, <<Backtick>> \o Get(entry, "source_id", Str(<<"N/A">>)).v
                            \o <<Backtick>>)
    ELSE line = <<"Fuente ", ToString(k), " invalida">>

\* C7: for an authorized user with the toggle on, a non-empty answer and a
\* non-empty list of sources, the reply is the answer, then the Sources (Debug)
\* header, then one bulleted line per source entry, in the order of the list,
\* and it is sent with parse_mode MARKDOWN_V2.
C7_DebugBlockInOrder ==
    \A u \in Users :
        (/\ Rendered(u)
         /\ debug_flags[u].authorized /\ debug_flags[u].active
         /\ Truthy(ResultAnswer(u))
         /\ ResultSources(u).t = "list"
         /\ Len(ResultSources(u).v) > 0)
            => LET text == replies[u][1].text
                   answer == ResultAnswer(u).v
                   entries == ResultSources(u).v
                   block == Drop(text, Len(answer) + Len(SourcesHeader))
               IN /\ replies[u][1].parse_mode = "MARKDOWN_V2"
                  /\ StartsWith(text, answer \o SourcesHeader)
                  /\ StartsWith(block, <<NL, Bullet>>)
                  /\ Cardinality(BulletPositions(block)) = Len(entries)
                  /\ \A k \in 1..Len(entries) :
                         LineOfEntry(ListLine(block, k), entries[k], k)

\* the reply for the two sources of the test, FILE1_q0 then priority_context
C7_Witness ==
    \E u \in Users :
        /\ Rendered(u)
        /\ debug_flags[u].authorized /\ debug_flags[u].active
        /\ Truthy(ResultAnswer(u))
        /\ ResultSources(u) = List(<<Entry1, Entry2>>)
        /\ replies[u][1].line = 135

---------------------------------------------------------------------------
(* C8 *)

\* the handler of u rendered a result whose answer is empty or missing
RenderedEmptyAnswer(u) == Rendered(u) /\ ~Truthy(ResultAnswer(u))

\* C8, as claimed: when the answer is empty or missing the reply text is the
\* generic fallback answer, with no Sources (Debug) header, for every sources
\* list and every authorization and toggle.
C8_FallbackOnly ==
    \A u \in Users :
        RenderedEmptyAnswer(u)
            => \A i \in 1..Len(replies[u]) : replies[u][i].text = API_ERROR_MESSAGE

\* C8, amended: when the answer is empty or missing the reply text begins with
\* the generic fallback answer and carries no source id and no source line; it
\* is exactly the fallback answer unless the caller is authorized with the
\* toggle on, and then the header with the fixed no-sources text follows it.
C8_FallbackWithoutSources ==
    \A u \in Users :
        RenderedEmptyAnswer(u)
            => \A i \in 1..Len(replies[u]) :
                   /\ ~HasToken(replies[u][i].text, SourceIdTokens \cup {Backtick, Bullet})
                   /\ replies[u][i].text =
                          (IF i = 1 /\ debug_flags[u].authorized /\ debug_flags[u].active
                           THEN API_ERROR_MESSAGE \o SourcesHeader
                                    \o <<" Ninguna encontrada o formato invalido">>
                           ELSE API_ERROR_MESSAGE)

\* an authorized user with the toggle on got the reply for an empty answer that
\* came with two sources
C8_Witness ==
    \E u \in Users :
        /\ RenderedEmptyAnswer(u)
        /\ debug_flags[u].authorized /\ debug_flags[u].active
        /\ ResultSources(u).t = "list"
        /\ Len(ResultSources(u).v) = 2
        /\ replies[u][1].outcome = "sent"

---------------------------------------------------------------------------
(* C9 *)

\* the backend answered the call of u with a 2xx whose body is no JSON object or
\* is an object without an answer
MalformedSuccess(u) ==
    /\ GotResponse(u)
    /\ ~IsHttpError(response[u].status)
    /\ \/ response[u].body.t # "dict"
       \/ "answer" \notin DOMAIN response[u].body.v

\* C9: a 2xx whose body is not a JSON object, or is one without an answer, makes
\* get_api_chat_response return a fallback: a non-empty answer, no sources, the
\* session key of the caller, and never the body itself.
C9_MalformedGivesFallback ==
    \A u \in Users :
        MalformedSuccess(u)
            => /\ api_result[u].k = "return"
               /\ api_result[u].v.t = "dict"
               /\ Truthy(Get(api_result[u].v, "answer", PyNone))
               /\ Get(api_result[u].v, "sources", PyNone) = List(<<>>)
               /\ Get(api_result[u].v, "session_id", PyNone) = requests[u][1].session_id
               /\ api_result[u].v # response[u].body

---------------------------------------------------------------------------
(* C10 *)

\* C10: on every 5xx the result is the fallback with the generic
\* unexpected-server-error answer, no sources and the session key of the caller:
\* the same result for every error body.
C10_GenericOn5xx ==
    \A u \in Users :
        (GotResponse(u) /\ response[u].status >= 500)
            => api_result[u] =
                   Return(Dict([answer |-> Str(<<"Error inesperado del servidor principal", ".">>),
                                sources |-> List(<<>>),
                                session_id |-> requests[u][1].session_id]))

\* a 500 whose body is a JSON object with a detail was answered
C10_Witness ==
    \E u \in Users :
        /\ GotResponse(u)
        /\ response[u].status = 500
        /\ response[u].body = Dict([detail |-> Str(DetailText)])
        /\ api_result[u].k = "return"

---------------------------------------------------------------------------
(* C11 *)

\* the backend answered the call of u with a 4xx other than 401
ClientError(u) ==
    /\ GotResponse(u)
    /\ response[u].status \in 400..499
    /\ response[u].status # 401

\* the error body of u is a JSON object with a non-empty detail
UsableDetail(u) ==
    /\ response[u].body.t = "dict"
    /\ Truthy(Get(response[u].body, "detail", PyNone))

\* C11: on a 4xx other than 401 whose body is a JSON object with a non-empty
\* detail the returned answer is exactly "Error <status>: <detail>"; when the
\* body is not JSON, not an object, or its detail is missing or empty, the
\* returned answer is the generic unexpected-server-error message.
C11_ClientErrorDetail ==
    \A u \in Users :
        ClientError(u)
            => /\ api_result[u].k = "return"
               /\ Get(api_result[u].v, "answer", PyNone) =
                      (IF UsableDetail(u)
                       THEN Str(<<"Error ", ToString(response[u].status), ": ">>
                                    \o response[u].body.v.detail.v)
                       ELSE Str(<<"Error inesperado del servidor principal", ".">>))

\* a 403 with the detail "quota exceeded" was answered with "Error 403: quota exceeded"
C11_Witness ==
    \E u \in Users :
        /\ ClientError(u)
        /\ response[u].status = 403
        /\ response[u].body = Dict([detail |-> Str(DetailText)])
        /\ Get(api_result[u].v, "answer", PyNone) = Str(<<"Error ", "403", ": ", "quota exceeded">>)

---------------------------------------------------------------------------
(* C12 *)

\* the replies the handler of u would hand to Telegram if the backend call in
\* flight ended with net while the stored user data of u is data
RepliesFor(u, net, data) ==
    AfterApi(update[u].user, AfterRequest(net, requests[u][1].session_id),
             settings, data).replies

\* C12: whether a reply carries the debug block is decided by the toggle as it
\* was when the handling began: a step taken while the backend call of u is in
\* flight (a /debug on or /debug off of u among them) leaves the reply that
\* every backend outcome will get as it was before the step.
C12_ToggleReadAtStart ==
    [][\A u \in Users :
          (/\ pc[u] = "await_api"
           /\ pc'[u] = "await_api"
           /\ user_data'[u] # user_data[u])
              => \A net \in NetOutcomes :
                     (net.kind = "response" => net.body \in Bodies(net.status))
                         => RepliesFor(u, net, user_data'[u]) = RepliesFor(u, net, user_data[u])]_vars

---------------------------------------------------------------------------
(* C13 *)

\* C13: a handling cancelled while its backend call is in flight ends without
\* side effects: the cancellation leaves get_api_chat_response as it is (not
\* as another fault), the handling ends cancelled, no reply is handed to
\* Telegram for that message and no further request is issued.
C13_CancelNoSideEffects ==
    \A u \in Users :
        response[u].kind = "cancelled"
            => /\ api_result[u] = Raise("CancelledError")
               /\ pc[u] = "cancelled"
               /\ replies[u] = <<>>
               /\ Len(requests[u]) = 1

---------------------------------------------------------------------------
(* C14 *)

\* the characters MarkdownV2 reserves, the backtick apart
Reserved ==
    {"_", "*", "[", "]", "(", ")", "~", ">", "#", "+", "-", "=", "|", "{", "}", ".", "!"}

\* position i of text lies inside an inline code span
InCodeSpan(text, i) ==
    /\ text[i] # Backtick
    /\ Cardinality({ j \in 1..(i - 1) : text[j] = Backtick }) % 2 = 1

\* position i of text holds a reserved character that stands for itself: it is
\* not in a code span and is not one of the asterisks that set the header bold
LiteralReserved(text, i) ==
    /\ text[i] \in Reserved \ {"*"}
    /\ ~InCodeSpan(text, i)

Escaped(text, i) == i > 1 /\ text[i - 1] = "\\"

\* the debug block of the reply the handler of u rendered: what follows the
\* base answer
BlockOf(u) ==
    Drop(replies[u][1].text,
         Len(IF Truthy(ResultAnswer(u)) THEN ResultAnswer(u).v ELSE API_ERROR_MESSAGE))

\* C14: in every reply that carries the debug block, every reserved character
\* that occurs literally in the block (the separator rule and the rendered
\* score included) is preceded by a backslash, and every source id is inside
\* an inline code span.
C14_BlockEscaped ==
    \A u \in Users :
        (Rendered(u) /\ debug_flags[u].authorized /\ debug_flags[u].active)
            => LET block == BlockOf(u) IN
               \A i \in 1..Len(block) :
                   /\ LiteralReserved(block, i) => Escaped(block, i)
                   /\ block[i] \in SourceIdTokens => InCodeSpan(block, i)

---------------------------------------------------------------------------
(* C15 *)

\* the line the debug block owes a source entry: its id in a code span, then
\* the score to 3 decimals in parentheses when the entry has a score, be it a
\* fractional or a whole number
OwedLine(entry) ==
    LET id == <<Backtick>> \o Get(entry, "source_id", Str(<<"N/A">>)).v \o <<Backtick>>
        score == Get(entry, "score", PyNone)
    IN CASE score.t = "float" -> id \o <<" ", "(">> \o Format3f(score.v[1]) \o <<")">>
         [] score.t = "int" -> id \o <<" ", "(">> \o Format3f(score.v[1] * 10000) \o <<")">>
         [] OTHER -> id

\* C15: in the debug block every source entry with a score, sent as a
\* fractional number (0.95) or as a whole number (1), is its source id followed
\* by the score formatted to 3 decimals in parentheses, and every entry without
\* a score is its source id alone.
C15_ScoreToThreeDecimals ==
    \A u \in Users :
        (/\ Rendered(u)
         /\ debug_flags[u].authorized /\ debug_flags[u].active
         /\ Truthy(ResultAnswer(u))
         /\ ResultSources(u).t = "list"
         /\ Len(ResultSources(u).v) > 0)
            => LET entries == ResultSources(u).v
                   block == Drop(replies[u][1].text,
                                 Len(ResultAnswer(u).v) + Len(SourcesHeader))
               IN \A k \in 1..Len(entries) :
                      entries[k].t = "dict" => ListLine(block, k) = OwedLine(entries[k])

---------------------------------------------------------------------------
(* C16 *)

\* the base URL or the access credential is missing from the settings
ConfigMissing ==
    \/ settings.KELLYBOT_API_URL.t = "none"
    \/ settings.API_ACCESS_KEY.t = "none"

\* the handler of u has called get_api_chat_response
Called(u) == HasTextAndUser(u) /\ pc[u] # "idle"

\* C16: when the base URL or the access credential is missing (the URL alone,
\* the credential alone, or both) get_api_chat_response returns the
\* generic-failure fallback at once and issues no HTTP request.
C16_NoRequestWithoutConfig ==
    \A u \in Users :
        (ConfigMissing /\ Called(u))
            => /\ requests[u] = <<>>
               /\ api_result[u] =
                      Return(Dict([answer |-> Str(DefaultAnswer), sources |-> List(<<>>),
                                   session_id |-> SessionId(update[u].user)]))

---------------------------------------------------------------------------
(* C17 *)

\* C17: a connect or read timeout gives the answer that the response is taking
\* too long, a connection failure that is no timeout gives the answer that the
\* main system could not be reached; a timeout never gets the answer of a
\* connection failure, and the two answers differ.
C17_TimeoutIsNotConnectFailure ==
    /\ <<"Lo siento, la respuesta esta tardando demasiado", ".">>
           # <<"Lo siento, no pude conectarme con el sistema principal", ".">>
    /\ \A u \in Users :
           /\ (CallEnded(u) /\ response[u].kind = "timeout")
                  => /\ api_result[u].k = "return"
                     /\ Get(api_result[u].v, "answer", PyNone) =
                            Str(<<"Lo siento, la respuesta esta tardando demasiado", ".">>)
           /\ (CallEnded(u) /\ response[u].kind = "request_error")
                  => /\ api_result[u].k = "return"
                     /\ Get(api_result[u].v, "answer", PyNone) =
                            Str(<<"Lo siento, no pude conectarme con el sistema principal", ".">>)

\* the call of a user timed out and was answered, and the reply that carries
\* the answer was delivered
C17_Witness ==
    \E u \in Users :
        /\ response[u].kind = "timeout"
        /\ api_result[u].k = "return"
        /\ pc[u] = "done"
        /\ replies[u][1].outcome = "sent"
        /\ StartsWith(replies[u][1].text, TimeoutAnswer)

---------------------------------------------------------------------------
(* C18 *)

\* get_api_chat_response returned to the handler of u on a path other than the
\* 2xx one: a configuration fault (no request), a timeout, a connection
\* failure, an HTTP error or another fault
ReturnedFallback(u) ==
    /\ Called(u)
    /\ api_result[u].k = "return"
    /\ \/ requests[u] = <<>>
       \/ response[u].kind \in {"timeout", "request_error", "other_error"}
       \/ response[u].kind = "response" /\ response[u].status >= 400

\* C18: every fallback result get_api_chat_response returns carries the session
\* key the caller passed and an empty sources list, and the module-level
\* default error response stays as it was written, whatever calls were made.
C18_FallbackKeepsSessionKey ==
    /\ default_error_response =
           [answer |-> Str(DefaultAnswer), sources |-> List(<<>>), session_id |-> PyNone]
    /\ \A u \in Users :
           ReturnedFallback(u)
               => /\ api_result[u].v.t = "dict"
                  /\ Get(api_result[u].v, "session_id", PyNone) = SessionId(update[u].user)
                  /\ Get(api_result[u].v, "sources", PyNone) = List(<<>>)

\* user 2 was answered with the fallback of a configuration fault (no
\* credential, no request) that carries the key tg_user_2
C18_Witness ==
    /\ settings.API_ACCESS_KEY.t = "none"
    /\ ReturnedFallback(2)
    /\ requests[2] = <<>>
    /\ Get(api_result[2].v, "session_id", PyNone) = Str(<<"tg_user_", "2">>)
    /\ pc[2] = "done"

---------------------------------------------------------------------------
(* C19 *)

\* C19: there is no retry: the handling of one text message issues at most one
\* POST whatever the backend does, and once the handler of a message with text
\* and a user has called get_api_chat_response there is exactly one request,
\* made with the text of that message and the session key of its sender.
C19_OneRequestPerMessage ==
    \A u \in Users :
        /\ Len(requests[u]) <= 1
        /\ Called(u)
               => requests[u] = <<[message |-> update[u].text,
                                   session_id |-> Str(<<"tg_user_", ToString(update[u].user)>>)]>>

\* a call that timed out was answered with the fallback and the handling ended
\* with its one request
C19_Witness ==
    \E u \in Users :
        /\ response[u].kind = "timeout"
        /\ pc[u] = "done"
        /\ Len(requests[u]) = 1
        /\ requests[u][1].message = MessageText

---------------------------------------------------------------------------
(* C20 *)

\* the session key of the request in flight or answered for u
KeyOf(u) == requests[u][1].session_id

\* C20: the session key passed to the backend is "tg_user_" followed by the user
\* id of the sender, so it is the same for every message of one user, and the
\* requests of two distinct user ids never carry the same key.
C20_SessionKeyInjective ==
    \A u, v \in Users :
        (requests[u] # <<>> /\ requests[v] # <<>>)
            => /\ KeyOf(u) = Str(<<"tg_user_", ToString(update[u].user)>>)
               /\ (KeyOf(u) = KeyOf(v)) <=> (update[u].user = update[v].user)

\* users 1 and 2 both have a request in flight, with the keys tg_user_1 and
\* tg_user_2
C20_Witness ==
    /\ pc[1] = "await_api" /\ pc[2] = "await_api"
    /\ KeyOf(1) = Str(<<"tg_user_", "1">>)
    /\ KeyOf(2) = Str(<<"tg_user_", "2">>)

---------------------------------------------------------------------------
(* C21 *)

\* C21: an update with no message, or whose message has no text, is ignored:
\* the step that takes it up ends its handling at once, with no reply handed
\* to Telegram, no request to the backend, no call result, and the user data
\* of every user as it was.
C21_NoTextIgnored ==
    [][\A u \in Users :
          (/\ pc[u] = "idle"
           /\ pc'[u] # "idle"
           /\ ~(update'[u].message /\ Truthy(update'[u].text)))
              => /\ pc'[u] = "done"
                 /\ replies'[u] = <<>>
                 /\ requests'[u] = <<>>
                 /\ api_result'[u] = [k |-> "none"]
                 /\ user_data' = user_data]_vars

\* a message without text was taken up and its handling has ended, while the
\* toggle of the authorized user is on
C21_Witness ==
    \E u \in Users :
        /\ pc[u] = "done"
        /\ update[u].message
        /\ update[u].text = PyNone
        /\ replies[u] = <<>>
        /\ requests[u] = <<>>
        /\ IsDebugActive(user_data[1])

---------------------------------------------------------------------------
(* C22 *)

\* the handlings of text messages stand where they stood
HandlersStill ==
    UNCHANGED <<pc, update, requests, response, api_result, debug_flags, replies>>

\* the commands with exactly one argument that is on or off in any case, and
\* the toggle each asks for
SwitchOn == {<<"/debug", "on">>, <<"/debug", "ON">>}
SwitchOff == {<<"/debug", "off">>, <<"/debug", "OFF">>}

\* what /debug with the parts c, sent by u, makes of the stored data of u
AfterCommand(u, c) == DebugModeAfter(u, c, settings, user_data[u])

\* C22: at every point, a /debug of an unauthorized user, or one with a
\* missing, extra or other argument, leaves the user data as it is, and one of
\* an authorized user with the single argument on or off (in any case) sets
\* that toggle; and a step that changes the user data of a user changes that of
\* one user only, who is authorized, to what one of those commands of that user
\* makes of it, and is no step of message handling.  So the toggle of an
\* unauthorized user never changes.
C22_ToggleOnlyByValidCommand ==
    [][/\ \A u \in Users : \A c \in Commands :
             /\ (u \notin settings.authorized_debug_user_ids \/ c \notin SwitchOn \cup SwitchOff)
                    => AfterCommand(u, c) = user_data[u]
             /\ (u \in settings.authorized_debug_user_ids /\ c \in SwitchOn \cup SwitchOff)
                    => /\ IsDebugActive(AfterCommand(u, c)) = (c \in SwitchOn)
                       /\ Get(AfterCommand(u, c), "debug_mode", PyNone) = PyBool(c \in SwitchOn)
       /\ user_data' # user_data
             => /\ HandlersStill
                /\ \E u \in settings.authorized_debug_user_ids :
                       /\ \A v \in Users \ {u} : user_data'[v] = user_data[v]
                       /\ \E c \in SwitchOn \cup SwitchOff :
                              Get(user_data'[u], "debug_mode", PyNone) = PyBool(c \in SwitchOn)]_vars

\* the handler of user 1 read the toggle as off and rendered its reply, and the
\* toggle of user 1 is on now: a /debug on of user 1 was handled in between;
\* the toggle of the unauthorized user 2 is off
C22_Witness ==
    /\ debug_flags[1].read
    /\ ~debug_flags[1].active
    /\ IsDebugActive(user_data[1])
    /\ ~IsDebugActive(user_data[2])

---------------------------------------------------------------------------
(* C23 *)

\* the step ends the backend call of u, and not by cancellation: the handler
\* reads the toggle and hands its reply to Telegram
Answers(u) ==
    /\ pc[u] = "await_api"
    /\ pc'[u] # "await_api"
    /\ response'[u].kind # "cancelled"

\* C23: the latest /debug command of an authorized user wins.  /debug on leaves
\* the toggle on and /debug off leaves it off whatever it was, so repeating a
\* command changes nothing; and a message of that user answered while the
\* toggle stands as the latest command left it gets a reply with the Sources
\* (Debug) block when that command was on, and without it when it was off.
C23_LatestCommandWins ==
    [][\A u \in settings.authorized_debug_user_ids :
          /\ \A c \in SwitchOn \cup SwitchOff :
                 /\ IsDebugActive(AfterCommand(u, c)) = (c \in SwitchOn)
                 /\ DebugModeAfter(u, c, settings, AfterCommand(u, c)) = AfterCommand(u, c)
          /\ Answers(u)
                 => /\ replies'[u] # <<>>
                    /\ HasToken(replies'[u][1].text, HeaderTokens)
                           <=> IsDebugActive(user_data[u])]_vars

====
